---- MODULE Spec2Model ----
(***************************************************************************)
(* ns-rules: namespace reference rules for Clojure sources.                *)
(*                                                                         *)
(* Strings are sequences of one-character strings, offsets are 0-based as  *)
(* in the program and positions inside the regex operators are 1-based     *)
(* sequence indices.                                                       *)
(***************************************************************************)
EXTENDS Integers, Sequences, FiniteSets, TLC

VARIABLES
    pc,             \* position of main / of the harness
    decls,          \* rule declarations of the configuration file
    rules,          \* config.rules
    source_files,   \* Vec<ClojureSourceFile>
    compiled_rules, \* Vec<CompiledRule>
    report,         \* Report
    file_idx,       \* position of apply_rules' outer loop
    io,             \* outcome of the last fs::read_to_string
    exit_code,      \* status handed to process::exit
    pattern,        \* argument of NamespaceMatcher::from_str
    matcher,        \* its outcome
    candidate,      \* argument of NamespaceMatcher::matches
    matched         \* its outcome

vars == <<pc, decls, rules, source_files, compiled_rules, report, file_idx,
          io, exit_code, pattern, matcher, candidate, matched>>

(***************************************************************************)
(* Bounds                                                                  *)
(***************************************************************************)
MaxPatLen == 3
MaxNsLen == 3

\* Characters of the enumerated pattern strings and namespaces.
PatChars == {"a", "b", ".", "*", "+", "$", " "}
NsChars == {"a", "b", ".", "+", "$"}

BoundedStrings(chars, n) == UNION {[1..k -> chars] : k \in 0..n}

Min(S) == CHOOSE x \in S : \A y \in S : x <= y

(***************************************************************************)
(* The regex crate, for the expressions the program builds.                *)
(*                                                                         *)
(* A regex source is a sequence of tokens: a raw character, "\\." (an      *)
(* escaped dot), "|", or one of the two class constants with their         *)
(* trailing "+".  A compiled regex is a sequence of alternatives, each a   *)
(* sequence of items [set, eol, min, many]: a character class or the end   *)
(* assertion, repeated min..1 or min..unbounded times (greedy).            *)
(*                                                                         *)
(* As in the crate: a search is unanchored; alternatives are tried in      *)
(* order (leftmost-first); the empty expression matches the empty string   *)
(* at every position; "$" holds only at the end of the text; a repetition  *)
(* operator with nothing before it is a syntax error.                      *)
(***************************************************************************)
Alnum == {"a", "b", "c", "d", "r", "x"}
SegmentClass == Alnum \cup {"*", "+", "$"}
NsClass == SegmentClass \cup {"."}

NS_REGEX == "[ns]+"
NS_SEGMENT_REGEX == "[seg]+"

Atom(t) ==
    IF t = NS_REGEX THEN [set |-> NsClass, eol |-> FALSE, min |-> 1, many |-> TRUE]
    ELSE IF t = NS_SEGMENT_REGEX
        THEN [set |-> SegmentClass, eol |-> FALSE, min |-> 1, many |-> TRUE]
    ELSE IF t = "\\." THEN [set |-> {"."}, eol |-> FALSE, min |-> 1, many |-> FALSE]
    ELSE IF t = "$" THEN [set |-> {}, eol |-> TRUE, min |-> 1, many |-> FALSE]
    ELSE [set |-> {t}, eol |-> FALSE, min |-> 1, many |-> FALSE]

\* One alternative: "+" and "*" repeat the item before them and are an error
\* ("repetition operator missing expression") when there is none.
RECURSIVE ParseConcat(_, _, _)
ParseConcat(toks, i, acc) ==
    IF i > Len(toks) THEN [ok |-> TRUE, items |-> acc]
    ELSE IF toks[i] \in {"+", "*"}
        THEN IF acc = <<>> THEN [ok |-> FALSE, items |-> <<>>]
             ELSE ParseConcat(toks, i + 1,
                    [acc EXCEPT ![Len(acc)] =
                        [@ EXCEPT !.many = TRUE,
                                  !.min = IF toks[i] = "*" THEN 0 ELSE @]])
    ELSE ParseConcat(toks, i + 1, Append(acc, Atom(toks[i])))

\* The token sequences between the "|" of a regex source.
RECURSIVE SplitAlternatives(_, _, _)
SplitAlternatives(toks, i, cur) ==
    IF i > Len(toks) THEN <<cur>>
    ELSE IF toks[i] = "|" THEN <<cur>> \o SplitAlternatives(toks, i + 1, <<>>)
    ELSE SplitAlternatives(toks, i + 1, Append(cur, toks[i]))

\* The regex of the parsed alternatives, or the error of one of them.
Compiled(toks, parsed) ==
    IF \A k \in DOMAIN parsed : parsed[k].ok
    THEN [ok |-> TRUE, src |-> toks, alts |-> [k \in DOMAIN parsed |-> parsed[k].items]]
    ELSE [ok |-> FALSE, src |-> toks, alts |-> <<>>]

ParseAlternatives(parts) == [k \in DOMAIN parts |-> ParseConcat(parts[k], 1, <<>>)]

\* Regex::new: the compiled regex, or an error.
RegexNew(toks) == Compiled(toks, ParseAlternatives(SplitAlternatives(toks, 1, <<>>)))

\* The number of characters of text from pos on that lie in set.
RECURSIVE RunLen(_, _, _)
RunLen(set, text, pos) ==
    IF pos <= Len(text) /\ text[pos] \in set THEN 1 + RunLen(set, text, pos + 1)
    ELSE 0

\* The end (the position after the last character) of the preferred match of
\* items[k..] at pos, or 0 when there is none.  Repetitions are greedy.
RECURSIVE MatchEnd(_, _, _, _)
RECURSIVE TryCounts(_, _, _, _, _)
MatchEnd(items, k, text, pos) ==
    IF k > Len(items) THEN pos
    ELSE IF items[k].eol
        THEN IF items[k].min = 0 \/ pos = Len(text) + 1
             THEN MatchEnd(items, k + 1, text, pos)
             ELSE 0
    ELSE LET run == RunLen(items[k].set, text, pos)
             hi == IF items[k].many \/ run = 0 THEN run ELSE 1
         IN  TryCounts(items, k, text, pos, hi)

TryCounts(items, k, text, pos, n) ==
    IF n < items[k].min THEN 0
    ELSE LET e == MatchEnd(items, k + 1, text, pos + n)
         IN  IF e # 0 THEN e ELSE TryCounts(items, k, text, pos, n - 1)

\* The end of the match at pos of the first alternative that matches there.
RECURSIVE MatchAlt(_, _, _, _)
MatchAlt(re, a, text, pos) ==
    IF a > Len(re.alts) THEN 0
    ELSE LET e == MatchEnd(re.alts[a], 1, text, pos)
         IN  IF e # 0 THEN e ELSE MatchAlt(re, a + 1, text, pos)

\* Regex::find_at: the leftmost match starting at or after from, as
\* <<start, end>> positions, or <<>>.
RECURSIVE FindAt(_, _, _)
FindAt(re, text, from) ==
    IF from > Len(text) + 1 THEN <<>>
    ELSE LET e == MatchAlt(re, 1, text, from)
         IN  IF e # 0 THEN <<from, e>> ELSE FindAt(re, text, from + 1)

\* Regex::is_match: the expression matches somewhere in text.
IsMatch(re, text) == FindAt(re, text, 1) # <<>>

\* Regex::find_iter: the successive non-overlapping matches.  last_end is where
\* the next search starts and last_match the end of the previous match (0: none);
\* an empty match moves the search on by one character and is dropped when it
\* directly follows the previous match.
RECURSIVE FindIter(_, _, _, _)
FindIter(re, text, last_end, last_match) ==
    LET m == FindAt(re, text, last_end)
    IN  IF m = <<>> THEN <<>>
        ELSE IF m[1] = m[2]
            THEN IF m[2] = last_match
                 THEN FindIter(re, text, m[2] + 1, last_match)
                 ELSE <<m>> \o FindIter(re, text, m[2] + 1, m[2])
        ELSE <<m>> \o FindIter(re, text, m[2], m[2])

(***************************************************************************)
(* NamespaceMatcher                                                        *)
(***************************************************************************)
\* segment.replace('*', NS_SEGMENT_REGEX) on the segments of s, joined by "\\.".
Segments(s) ==
    [i \in DOMAIN s |->
        IF s[i] = "." THEN "\\."
        ELSE IF s[i] = "*" THEN NS_SEGMENT_REGEX
        ELSE s[i]]

\* s.rsplit_once('.') is Some((head, "*")).
IsRecursive(s) == Len(s) >= 2 /\ s[Len(s)] = "*" /\ s[Len(s) - 1] = "."

\* The regex source from_str builds.
PatternSource(s) ==
    IF IsRecursive(s)
    THEN Segments(SubSeq(s, 1, Len(s) - 2)) \o <<"\\.", NS_REGEX>>
    ELSE Segments(s)

NoRegex == [ok |-> FALSE, src |-> <<>>, alts |-> <<>>]

\* Ok(Self(Regex::new(&pattern).expect("valid regex"))): expect panics on an error.
Expect(re) == [tag |-> IF re.ok THEN "Ok" ELSE "Panic", re |-> re]

from_str(s) ==
    IF s = <<>> THEN [tag |-> "Err", re |-> NoRegex]
    ELSE IF \E i \in DOMAIN s : s[i] = " " THEN [tag |-> "Err", re |-> NoRegex]
    ELSE IF s[1] = "." \/ s[Len(s)] = "." THEN [tag |-> "Err", re |-> NoRegex]
    ELSE Expect(RegexNew(PatternSource(s)))

matches(m, namespace) == IsMatch(m, namespace)

(***************************************************************************)
(* ClojureSourceFile, Report, Rule and CompiledRule                        *)
(***************************************************************************)
ClojureSourceFile(ns, file_path) == [entry |-> ns \o file_path, path_start |-> Len(ns)]

path(file) == SubSeq(file.entry, file.path_start + 1, Len(file.entry))

namespace(file) == SubSeq(file.entry, 1, file.path_start)

candidate_files(rep, files) == [rep EXCEPT !.files_checked = Len(files)]

\* file_skipped without the count of skipped files.
FileSkippedNoCount(rep, warning) == [rep EXCEPT !.warnings = Append(@, warning)]

file_skipped(rep, warning) ==
    [rep EXCEPT !.warnings = Append(@, warning), !.files_skipped = @ + 1]

violation(rep, v) == [rep EXCEPT !.violations = Append(@, v)]

rule_matched(rep) == [rep EXCEPT !.rules_matched = @ + 1]

warn(rep, warning) == [rep EXCEPT !.warnings = Append(@, warning)]

\* exit_status failing on warnings too.
ExitStatusWarnings(rep) ==
    IF rep.violations = <<>> /\ rep.warnings = <<>> THEN 0 ELSE 1

exit_status(rep) == IF rep.violations = <<>> THEN 0 ELSE 1

\* not_allowed without the self reference.
NotAllowedNoSelf(rule, source_file) ==
    ~\E k \in DOMAIN rule.allow : matches(rule.allow[k], namespace(source_file))

\* The closure not_allowed of Rule::compile.
not_allowed(rule, source_file) ==
    LET in_allow_list ==
            \E k \in DOMAIN rule.allow : matches(rule.allow[k], namespace(source_file))
        self_reference == matches(rule.namespace, namespace(source_file))
    IN  ~in_allow_list /\ ~self_reference

\* The namespaces of the source files the rule does not allow, in corpus order.
RECURSIVE Forbidden(_, _, _)
Forbidden(rule, source_files_, k) ==
    IF k > Len(source_files_) THEN <<>>
    ELSE (IF not_allowed(rule, source_files_[k])
          THEN <<namespace(source_files_[k])>> ELSE <<>>)
         \o Forbidden(rule, source_files_, k + 1)

\* .intersperse("|").collect::<String>()
RECURSIVE Intersperse(_, _)
Intersperse(strs, k) ==
    IF k > Len(strs) THEN <<>>
    ELSE IF k = Len(strs) THEN strs[k]
    ELSE strs[k] \o <<"|">> \o Intersperse(strs, k + 1)

\* .replace('.', "\\.")
EscapeDots(s) == [i \in DOMAIN s |-> IF s[i] = "." THEN "\\." ELSE s[i]]

\* CompiledRule { namespace, checker: Regex::new(&regex).expect("valid regex") }
CompiledRule(ns_matcher, checker) ==
    [tag |-> IF checker.ok THEN "Ok" ELSE "Panic",
     rule |-> [namespace |-> ns_matcher, checker |-> checker]]

\* Rule::compile; the expect("valid regex") panics on a regex error.
Rule_compile(rule, source_files_) ==
    CompiledRule(rule.namespace,
        RegexNew(EscapeDots(Intersperse(Forbidden(rule, source_files_, 1), 1))))

CompiledRule_matches(compiled, ns) == matches(compiled.namespace, ns)

\* The 0-based offsets of the line breaks of code among positions lo..hi.
LineBreaks(code, lo, hi) == {p - 1 : p \in {q \in lo..hi : code[q] = "\n"}}

\* .nth(n) of a set of offsets read upwards (up = TRUE) or downwards; -1: None.
RECURSIVE Nth(_, _, _)
Nth(S, n, up) ==
    IF S = {} THEN -1
    ELSE LET x == IF up THEN Min(S) ELSE CHOOSE y \in S : \A z \in S : z <= y
         IN  IF n = 0 THEN x ELSE Nth(S \ {x}, n - 1, up)

SnippetNth == 4

\* Violation with the snippet starting on the line break instead of after it.
ViolationKeepBreak(file, code, start, end) ==
    LET back == Nth(LineBreaks(code, 1, start), SnippetNth, FALSE)
        forth == Nth(LineBreaks(code, end + 1, Len(code)), SnippetNth, TRUE)
        snippet_start == IF back = -1 THEN 0 ELSE back
        snippet_end == IF forth = -1 THEN Len(code) ELSE forth
    IN  [src |-> [name |-> path(file), source |-> code],
         src_ns |-> namespace(file),
         ref_ns |-> SubSeq(code, start + 1, end),
         snippet |-> <<snippet_start, snippet_end - snippet_start>>,
         ref_location |-> <<start, end - start>>]

\* The Violation apply builds for the match at offsets start..end of code.
Violation(file, code, start, end) ==
    LET back == Nth(LineBreaks(code, 1, start), SnippetNth, FALSE)
        forth == Nth(LineBreaks(code, end + 1, Len(code)), SnippetNth, TRUE)
        snippet_start == IF back = -1 THEN 0 ELSE back + 1
        snippet_end == IF forth = -1 THEN Len(code) ELSE forth
    IN  [src |-> [name |-> path(file), source |-> code],
         src_ns |-> namespace(file),
         ref_ns |-> SubSeq(code, start + 1, end),
         snippet |-> <<snippet_start, snippet_end - snippet_start>>,
         ref_location |-> <<start, end - start>>]

\* The loop of CompiledRule::apply over the matches found.
RECURSIVE ReportMatches(_, _, _, _, _)
ReportMatches(found, k, file, code, rep) ==
    IF k > Len(found) THEN rep
    ELSE ReportMatches(found, k + 1, file, code,
            violation(rep, Violation(file, code, found[k][1] - 1, found[k][2] - 1)))

apply(compiled, file, code, rep) ==
    ReportMatches(FindIter(compiled.checker, code, 1, 0), 1, file, code, rep)

\* The inner loop without its break: every matching rule is applied.
RECURSIVE RuleLoopNoBreak(_, _, _, _, _)
RuleLoopNoBreak(compiled, k, file, outcome, st) ==
    IF k > Len(compiled) THEN st
    ELSE IF CompiledRule_matches(compiled[k], namespace(file))
        THEN RuleLoopNoBreak(compiled, k + 1, file, outcome,
                [report |-> IF outcome.tag = "Ok"
                            THEN apply(compiled[k], file, outcome.code,
                                       rule_matched(st.report))
                            ELSE file_skipped(rule_matched(st.report),
                                    [kind |-> "failed to read file", path |-> path(file)]),
                 io |-> [tag |-> outcome.tag, path |-> path(file), code |-> outcome.code]])
    ELSE RuleLoopNoBreak(compiled, k + 1, file, outcome, st)

\* The inner loop of apply_rules for one file, from rule k on; outcome is what
\* fs::read_to_string returns if it is called.  st is [report, io].
RECURSIVE RuleLoop(_, _, _, _, _)
RuleLoop(compiled, k, file, outcome, st) ==
    IF k > Len(compiled) THEN st
    ELSE IF CompiledRule_matches(compiled[k], namespace(file))
        THEN LET rep == rule_matched(st.report)
                 read == [tag |-> outcome.tag, path |-> path(file), code |-> outcome.code]
             IN  IF outcome.tag = "Ok"
                 THEN [report |-> apply(compiled[k], file, outcome.code, rep), io |-> read]
                 ELSE [report |-> file_skipped(rep,
                                    [kind |-> "failed to read file", path |-> path(file)]),
                       io |-> read]
    ELSE RuleLoop(compiled, k + 1, file, outcome, st)

(***************************************************************************)
(* Pattern specification: from_str on a pattern string, then matches on a  *)
(* namespace.                                                              *)
(***************************************************************************)
\* Dot-joined non-empty segments without the wildcard character.
IsNamespace(s) ==
    /\ s # <<>>
    /\ s[1] # "." /\ s[Len(s)] # "."
    /\ \A i \in DOMAIN s : s[i] \notin {" ", "*"}
    /\ \A i \in 1..(Len(s) - 1) : ~(s[i] = "." /\ s[i + 1] = ".")

ExamplePatterns ==
    { <<"a", ".", "b", "*", ".", "c">>, <<"a", ".", "b", ".", "*">>,
      <<"a", ".", "b">>, <<"a", " ", "b">> }

ExampleNamespaces ==
    { <<"a", ".", "b", "a", "r", ".", "c">>, <<"a", ".", "b", "x", ".", "c">>,
      <<"a", ".", "b", ".", "c", ".", "d">>, <<"a", ".", "b", "a", "r", ".", "c", "x">>,
      <<"a", ".", "b", ".", "c">>, <<"x", ".", "b", ".", "c">>,
      <<"x", "a", ".", "b", ".", "c">>, <<"a", ".", "b">> }

PatternStrings == BoundedStrings(PatChars, MaxPatLen) \cup ExamplePatterns

Namespaces ==
    {s \in BoundedStrings(NsChars, MaxNsLen) : IsNamespace(s)} \cup ExampleNamespaces

NoMatcher == [tag |-> "None", re |-> NoRegex]
NewReport ==
    [violations |-> <<>>, warnings |-> <<>>, files_checked |-> 0,
     rules_matched |-> 0, files_skipped |-> 0]

\* The variables of the run, while only a pattern is exercised.
RunIdle ==
    /\ decls = <<>> /\ rules = <<>> /\ source_files = <<>>
    /\ compiled_rules = <<>> /\ report = NewReport /\ file_idx = 0
    /\ io = [tag |-> "None"] /\ exit_code = -1

\* The variables of a pattern, while the run is exercised.
PatternIdle ==
    /\ pattern = <<>> /\ matcher = NoMatcher /\ candidate = <<>>
    /\ matched = "none"

InitMatch ==
    /\ pc = "from_str"
    /\ pattern \in PatternStrings
    /\ matcher = NoMatcher /\ candidate = <<>> /\ matched = "none"
    /\ RunIdle

\* s.parse::<NamespaceMatcher>()
FromStr ==
    /\ pc = "from_str"
    /\ matcher' = from_str(pattern)
    /\ pc' = IF matcher'.tag = "Ok" THEN "matches"
             ELSE IF matcher'.tag = "Err" THEN "rejected" ELSE "panicked"
    /\ UNCHANGED <<decls, rules, source_files, compiled_rules, report, file_idx,
                   io, exit_code, pattern, candidate, matched>>

\* matcher.matches(namespace)
Matches ==
    /\ pc = "matches"
    /\ \E ns \in Namespaces :
        /\ candidate' = ns
        /\ matched' = matches(matcher.re, ns)
    /\ pc' = "matched"
    /\ UNCHANGED <<decls, rules, source_files, compiled_rules, report, file_idx,
                   io, exit_code, pattern, matcher>>

NextMatch == FromStr \/ Matches

SpecMatch == InitMatch /\ [][NextMatch]_vars

(***************************************************************************)
(* Run specification: main, from the configuration to the exit status.     *)
(***************************************************************************)
MaxRules == 2
MaxFiles == 2

\* A rule declaration of the configuration: the guard symbol and the symbols
\* of its :restrict-to vector.
Decl(ns_pattern, restrict_to) == [ns_pattern |-> ns_pattern, restrict_to |-> restrict_to]

DeclPool ==
    { Decl(<<"a", ".", "*">>, << <<"a", ".", "*">> >>),
      Decl(<<"a", ".", "*">>, << <<"a", ".", "*">>, <<"b", ".", "*">> >>),
      Decl(<<"a", ".", "x">>, << <<"c", ".", "*">> >>),
      Decl(<<"b", ".", "*">>, <<>>),
      Decl(<<"a", ".">>, << <<"a", ".", "*">> >>) }

CorpusNamespaces == { <<"a", ".", "x">>, <<"b", ".", "c">>, <<"c", ".", "d">> }

Texts ==
    { <<>>,
      <<"b", ".", "c">>,
      <<"c", ".", "d", "\n", "b", ".", "c">> }

ReadOutcomes ==
    {[tag |-> "Ok", code |-> t] : t \in Texts} \cup {[tag |-> "Err", code |-> <<>>]}

SeqsUpTo(S, n) == UNION {[1..k -> S] : k \in 0..n}

FilePath(i) == <<"/", ToString(i)>>

\* The outcome of parse_rule for the parsed guard and allow list: Some(rule),
\* None (no effect), or the first Err or panic of from_str.
ParsedRule(tags, ns_matcher, allow_list) ==
    [tag |-> IF \E k \in DOMAIN tags : tags[k] # "Ok"
             THEN tags[Min({k \in DOMAIN tags : tags[k] # "Ok"})]
             ELSE IF allow_list = <<>> THEN "None" ELSE "Some",
     rule |-> [namespace |-> ns_matcher.re,
               allow |-> [k \in DOMAIN allow_list |-> allow_list[k].re]]]

ParsedPatterns(ns_matcher, allow_list) ==
    ParsedRule(<<ns_matcher.tag>> \o [k \in DOMAIN allow_list |-> allow_list[k].tag],
               ns_matcher, allow_list)

\* config::parse_rule
parse_rule(decl) ==
    ParsedPatterns(from_str(decl.ns_pattern),
                   [k \in DOMAIN decl.restrict_to |-> from_str(decl.restrict_to[k])])

\* The loop of config::read_file over the parsed rule declarations: a rule is
\* kept, a rule without effect is warned about, an error ends the loop.
RECURSIVE CollectRules(_, _, _, _, _)
CollectRules(ds, parsed, k, parsed_rules, rep) ==
    IF k > Len(ds) THEN [tag |-> "Ok", rules |-> parsed_rules, report |-> rep]
    ELSE IF parsed[k].tag = "Some"
        THEN CollectRules(ds, parsed, k + 1, Append(parsed_rules, parsed[k].rule), rep)
    ELSE IF parsed[k].tag = "None"
        THEN CollectRules(ds, parsed, k + 1, parsed_rules,
                warn(rep, [kind |-> "has no effect", path |-> ds[k].ns_pattern]))
    ELSE [tag |-> parsed[k].tag, rules |-> <<>>, report |-> rep]

ParseRules(ds, rep) ==
    CollectRules(ds, [k \in DOMAIN ds |-> parse_rule(ds[k])], 1, <<>>, rep)

Init ==
    /\ pc = "read_file"
    /\ decls \in SeqsUpTo(DeclPool, MaxRules)
    /\ rules = <<>> /\ source_files = <<>> /\ compiled_rules = <<>>
    /\ report = NewReport /\ file_idx = 0 /\ io = [tag |-> "None"]
    /\ exit_code = -1
    /\ PatternIdle

\* config::read_file
ReadFile ==
    /\ pc = "read_file"
    /\ LET r == ParseRules(decls, report)
       IN  /\ rules' = r.rules
           /\ report' = r.report
           /\ pc' = IF r.tag = "Ok" THEN "find_source_files"
                    ELSE IF r.tag = "Err" THEN "config_error" ELSE "panicked"
    /\ UNCHANGED <<decls, source_files, compiled_rules, file_idx, io, exit_code,
                   pattern, matcher, candidate, matched>>

\* find_source_files: the walk finds source files with the namespaces nss and
\* may meet a file that is no Clojure source.
FindSourceFiles ==
    /\ pc = "find_source_files"
    /\ \E nss \in SeqsUpTo(CorpusNamespaces, MaxFiles), other \in BOOLEAN :
        LET files == [i \in DOMAIN nss |-> ClojureSourceFile(nss[i], FilePath(i))]
            rep == IF other
                   THEN file_skipped(report,
                            [kind |-> "is not a Clojure source file", path |-> <<"/", "0">>])
                   ELSE report
        IN  /\ source_files' = files
            /\ report' = candidate_files(rep, files)
    /\ pc' = "compile"
    /\ UNCHANGED <<decls, rules, compiled_rules, file_idx, io, exit_code,
                   pattern, matcher, candidate, matched>>

\* main: config.rules.into_iter().map(|rule| rule.compile(&source_files))
CompileRules ==
    /\ pc = "compile"
    /\ LET compiled == [k \in DOMAIN rules |-> Rule_compile(rules[k], source_files)]
       IN  IF \E k \in DOMAIN compiled : compiled[k].tag = "Panic"
           THEN pc' = "panicked" /\ UNCHANGED <<compiled_rules, file_idx>>
           ELSE /\ compiled_rules' = [k \in DOMAIN compiled |-> compiled[k].rule]
                /\ file_idx' = 1
                /\ pc' = "apply_rules"
    /\ UNCHANGED <<decls, rules, source_files, report, io, exit_code,
                   pattern, matcher, candidate, matched>>

\* apply_rules: one iteration of the loop over the source files.
ApplyRules ==
    /\ pc = "apply_rules"
    /\ file_idx <= Len(source_files)
    /\ \E outcome \in ReadOutcomes :
        LET st == RuleLoop(compiled_rules, 1, source_files[file_idx], outcome,
                           [report |-> report, io |-> io])
        IN  /\ report' = st.report
            /\ io' = st.io
    /\ file_idx' = file_idx + 1
    /\ UNCHANGED <<pc, decls, rules, source_files, compiled_rules, exit_code,
                   pattern, matcher, candidate, matched>>

\* main: print the report and process::exit(report.exit_status())
Exit ==
    /\ pc = "apply_rules"
    /\ file_idx > Len(source_files)
    /\ exit_code' = exit_status(report)
    /\ pc' = "done"
    /\ UNCHANGED <<decls, rules, source_files, compiled_rules, report, file_idx, io,
                   pattern, matcher, candidate, matched>>

Next == ReadFile \/ FindSourceFiles \/ CompileRules \/ ApplyRules \/ Exit

Spec == Init /\ [][Next]_vars

(***************************************************************************)
(* Scan specification: Rule::compile of one rule over a corpus, then       *)
(* CompiledRule::apply on a text.                                          *)
(***************************************************************************)
MaxAllow == 1
MaxCorpus == 2

ScanPatterns ==
    { <<"a">>, <<"a", ".", "*">>, <<"b", ".", "*">>, <<"*">> }

ScanNamespaces == { <<"a">>, <<"a", ".", "b">>, <<"b", ".", "c">>, <<"a", "+">> }

RECURSIVE Repeat(_, _)
Repeat(s, n) == IF n = 0 THEN <<>> ELSE s \o Repeat(s, n - 1)

\* Twenty lines, b.c on line 10.
TwentyLines ==
    Repeat(<<"x", "\n">>, 9) \o <<"b", ".", "c", "\n">> \o Repeat(<<"x", "\n">>, 10)

\* b.c with exactly five line breaks before it and five after it.
FiveAround == Repeat(<<"\n">>, 5) \o <<"b", ".", "c">> \o Repeat(<<"\n">>, 5)

ScanTexts ==
    { <<>>,
      <<"a">>,
      <<"a", "a">>,
      <<"a", "x", "b">>,
      <<"b", ".", "c", " ", "a", ".", "b">>,
      <<"a", ".", "b", "\n", "a", ".", "b">>,
      TwentyLines,
      FiveAround }

ScanRules ==
    {[namespace |-> from_str(g).re, allow |-> [k \in DOMAIN al |-> from_str(al[k]).re]] :
        g \in ScanPatterns, al \in SeqsUpTo(ScanPatterns, MaxAllow) \ {<<>>}}

InitScan ==
    /\ pc = "scan_compile"
    /\ \E rule \in ScanRules : rules = <<rule>>
    /\ \E nss \in SeqsUpTo(ScanNamespaces, MaxCorpus) :
        source_files = [i \in DOMAIN nss |-> ClojureSourceFile(nss[i], FilePath(i))]
    /\ decls = <<>> /\ compiled_rules = <<>> /\ report = NewReport
    /\ file_idx = 0 /\ io = [tag |-> "None"] /\ exit_code = -1
    /\ PatternIdle

\* rule.compile(&source_files)
ScanCompile ==
    /\ pc = "scan_compile"
    /\ LET compiled == Rule_compile(rules[1], source_files)
       IN  IF compiled.tag = "Panic"
           THEN pc' = "panicked" /\ UNCHANGED compiled_rules
           ELSE compiled_rules' = <<compiled.rule>> /\ pc' = "scan_apply"
    /\ UNCHANGED <<decls, rules, source_files, report, file_idx, io, exit_code,
                   pattern, matcher, candidate, matched>>

\* rule.apply(file, code, report) on a unit of the corpus the rule guards.
ScanApply ==
    /\ pc = "scan_apply"
    /\ \E i \in DOMAIN source_files, code \in ScanTexts :
        /\ CompiledRule_matches(compiled_rules[1], namespace(source_files[i]))
        /\ report' = apply(compiled_rules[1], source_files[i], code, report)
        /\ io' = [tag |-> "Ok", path |-> path(source_files[i]), code |-> code]
    /\ pc' = "scanned"
    /\ UNCHANGED <<decls, rules, source_files, compiled_rules, file_idx, exit_code,
                   pattern, matcher, candidate, matched>>

NextScan == ScanCompile \/ ScanApply

SpecScan == InitScan /\ [][NextScan]_vars

(***************************************************************************)
(* Properties                                                              *)
(***************************************************************************)
\* The violations apply reports for code under a compiled rule.
Scanned(compiled, file, code) == apply(compiled, file, code, NewReport).violations

\* The compiled rules whose guard matches the file's namespace.
Matching(file) ==
    {k \in DOMAIN compiled_rules :
        matches(compiled_rules[k].namespace, namespace(file))}

\* C1: first match wins.  One iteration of apply_rules applies to the unit only
\* the first compiled rule, in declared order, whose guard matches the unit's
\* namespace: the violations added are exactly that rule's, whatever later
\* rules match, and rules_matched grows by exactly one; a unit no guard matches
\* is not read and leaves the report as it was.
C1_FirstMatchWins ==
    [][ (pc = "apply_rules" /\ file_idx' = file_idx + 1) =>
            LET file == source_files[file_idx]
            IN  IF Matching(file) = {}
                THEN report' = report /\ io' = io
                ELSE /\ report'.rules_matched = report.rules_matched + 1
                     /\ io'.path = path(file)
                     /\ report'.violations = report.violations \o
                            (IF io'.tag = "Ok"
                             THEN Scanned(compiled_rules[Min(Matching(file))], file, io'.code)
                             ELSE <<>>)
      ]_vars

\* A unit matched by two rules that forbid different things has been scanned.
C1_Witness ==
    /\ pc = "apply_rules" /\ file_idx = 2 /\ io.tag = "Ok"
    /\ io.path = path(source_files[1])
    /\ Matching(source_files[1]) = {1, 2}
    /\ Scanned(compiled_rules[1], source_files[1], io.code)
            # Scanned(compiled_rules[2], source_files[1], io.code)
    /\ report.violations # <<>>
    /\ report.rules_matched = 1

\* C2: when no rule forbids a namespace of the corpus, no apply adds a
\* Violation, whatever the texts, and the run ends with exit status 0.
C2_EmptyForbiddenNeverFires ==
    (pc = "done" /\ \A k \in DOMAIN rules : Forbidden(rules[k], source_files, 1) = <<>>)
        => (report.violations = <<>> /\ exit_code = 0)

IsPlain(s) == \A i \in DOMAIN s : s[i] \in Alnum \cup {"."}

\* C3: matches is a whole-string match.  A pattern of plain segments matches no
\* namespace but itself, and a.b*.c matches a.bar.c and a.bx.c but neither
\* a.b.c.d nor a.bar.cx.
C3_WholeStringMatch ==
    pc = "matched" =>
        /\ (IsPlain(pattern) /\ matched) => candidate = pattern
        /\ pattern = <<"a", ".", "b", "*", ".", "c">> =>
            /\ candidate \in { <<"a", ".", "b", "a", "r", ".", "c">>,
                               <<"a", ".", "b", "x", ".", "c">> } => matched
            /\ candidate \in { <<"a", ".", "b", ".", "c", ".", "d">>,
                               <<"a", ".", "b", "a", "r", ".", "c", "x">> } => ~matched

\* C4: the pattern compiled from a namespace without wildcard matches that
\* namespace.
C4_MatchesItself ==
    (pc = "matched" /\ IsNamespace(pattern) /\ candidate = pattern) => matched

\* The namespaces the rule of the scan forbids.
ForbiddenSet ==
    LET forbidden == Forbidden(rules[1], source_files, 1)
    IN  {forbidden[k] : k \in DOMAIN forbidden}

\* C5: every Violation of apply is a literal occurrence of a forbidden
\* namespace: its reference text is the text at its offsets and equals one of
\* the corpus namespaces the rule forbids, and the Violations come in
\* increasing, non-overlapping offsets.
C5_ViolationsAreLiteral ==
    (pc = "scanned" /\ ForbiddenSet # {}) =>
        /\ \A k \in DOMAIN report.violations :
            LET v == report.violations[k]
            IN  /\ v.ref_ns = SubSeq(io.code, v.ref_location[1] + 1,
                                     v.ref_location[1] + v.ref_location[2])
                /\ v.ref_ns \in ForbiddenSet
        /\ \A k \in 1..(Len(report.violations) - 1) :
            report.violations[k].ref_location[1] + report.violations[k].ref_location[2]
                <= report.violations[k + 1].ref_location[1]

Unescape(toks) == [i \in DOMAIN toks |-> IF toks[i] = "\\." THEN "." ELSE toks[i]]

\* The strings a regex source of alternatives names.
AlternativesOf(src) ==
    IF src = <<>> THEN {}
    ELSE LET parts == SplitAlternatives(src, 1, <<>>)
         IN  {Unescape(parts[k]) : k \in DOMAIN parts}

\* The source files whose namespace matches the guard, and those whose
\* namespace matches an allow pattern.
GuardMatched == {i \in DOMAIN source_files :
                    matches(rules[1].namespace, namespace(source_files[i]))}
AllowMatched == {i \in DOMAIN source_files :
                    \E k \in DOMAIN rules[1].allow :
                        matches(rules[1].allow[k], namespace(source_files[i]))}

\* C6: the forbidden namespaces the checker of a compiled rule names are
\* exactly the corpus namespaces that match neither the guard nor an allow
\* pattern, as a set: duplicates in the corpus change nothing.
C6_ForbiddenSet ==
    pc \in {"scan_apply", "scanned"} =>
        AlternativesOf(compiled_rules[1].checker.src) =
            {namespace(source_files[i]) :
                i \in DOMAIN source_files \ (GuardMatched \cup AllowMatched)}

\* A corpus of one namespace only the guard matches and one forbidden twice...
C6_Witness ==
    /\ pc = "scan_apply"
    /\ Len(source_files) = 2
    /\ 1 \in GuardMatched \ AllowMatched
    /\ 2 \notin GuardMatched \cup AllowMatched
    /\ AlternativesOf(compiled_rules[1].checker.src) = {namespace(source_files[2])}

\* C7: a read failure on a matched unit adds one warning and one skipped file,
\* no Violation, keeps the Violations recorded, and the pass goes on to the
\* next unit.
C7_ReadFailureIsLocal ==
    [][ (pc = "apply_rules" /\ file_idx' = file_idx + 1
         /\ io'.tag = "Err" /\ io'.path = path(source_files[file_idx])) =>
            /\ Len(report'.warnings) = Len(report.warnings) + 1
            /\ report'.files_skipped = report.files_skipped + 1
            /\ report'.violations = report.violations
            /\ report'.rules_matched = report.rules_matched + 1
            /\ pc' = "apply_rules"
      ]_vars

\* The first unit could not be read, the second was scanned and violates.
C7_Witness ==
    /\ pc = "done" /\ exit_code = 1
    /\ \E k \in DOMAIN report.warnings :
        /\ report.warnings[k].kind = "failed to read file"
        /\ report.warnings[k].path = FilePath(1)
    /\ \E k \in DOMAIN report.violations : report.violations[k].src.name = FilePath(2)
    /\ \A k \in DOMAIN report.violations : report.violations[k].src.name # FilePath(1)

\* C8: the exit status is 0 exactly when the report holds no Violation.
C8_ExitStatus ==
    pc = "done" => /\ exit_code \in {0, 1}
                   /\ exit_code = 0 <=> report.violations = <<>>

\* A run with warnings, skipped files and matched rules but no Violation.
C8_Witness ==
    /\ pc = "done" /\ exit_code = 0
    /\ Len(report.warnings) >= 2 /\ report.files_skipped >= 1
    /\ report.rules_matched >= 1

IsInvalid(s) ==
    \/ s = <<>>
    \/ \E i \in DOMAIN s : s[i] = " "
    \/ s[1] = "." \/ s[Len(s)] = "."

\* C9: from_str returns a Pattern or an error and never aborts; the error
\* exactly for the empty string, a space, a leading or a trailing dot.
C9_CompileIsTotal ==
    pc # "from_str" =>
        /\ matcher.tag \in {"Ok", "Err"}
        /\ matcher.tag = "Err" <=> IsInvalid(pattern)

\* The prefix of a recursive pattern.
Prefix(s) == SubSeq(s, 1, Len(s) - 2)

\* C10: a recursive pattern with a plain prefix matches exactly the namespaces
\* made of the prefix, a dot and one or more further segments.
C10_RecursivePattern ==
    (pc = "matched" /\ IsRecursive(pattern) /\ IsNamespace(Prefix(pattern))
        /\ IsPlain(Prefix(pattern))) =>
        (matched <=>
            /\ Len(candidate) > Len(pattern) - 1
            /\ SubSeq(candidate, 1, Len(pattern) - 1) = Prefix(pattern) \o <<".">>)

\* The number of line breaks of code at the 0-based offsets lo..hi-1.
BreaksIn(code, lo, hi) == Cardinality({p \in lo..(hi - 1) : code[p + 1] = "\n"})

====
